---- MODULE Spec2Model ----
(***************************************************************************)
(* zenodo_uploader.py: a sequential command-line program that uploads      *)
(* files to Zenodo.  For every file it searches for a deposition by title, *)
(* then either creates a new deposition or a new version of the best       *)
(* match, uploads the file, attaches metadata (new depositions only) and   *)
(* optionally publishes.                                                   *)
(*                                                                         *)
(* Strings are sequences of one-character strings, so that str.replace,    *)
(* str.join, str.split and f-string formatting are computed character by   *)
(* character.  Python's None is 0 for ids and <<>> for URLs.               *)
(***************************************************************************)
EXTENDS Integers, Sequences, FiniteSets, TLC

\* ------------------------------------------------------------- bounds
\* Longest batch of -f arguments explored.
MaxFiles == 2
\* Longest hit list a search response carries.
MaxHits == 2

\* ------------------------------------------------------------ strings
Slash == <<"/">>
\* Dropping the "/" instead.
SlashDropped == <<>>

\* Line 23: the replacement for "/" in the search string.
SlashReplacement == <<" ">>
Quote == <<"\"">>
Deposit == <<"d", "e", "p", "o", "s", "i", "t">>
Record == <<"r", "e", "c", "o", "r", "d">>
\* f'metadata.title:"{title}"' (line 17), up to the title.
TitlePrefix ==
    <<"m", "e", "t", "a", "d", "a", "t", "a", ".", "t", "i", "t", "l", "e", ":", "\"">>
\* f" owners:{owner}" (line 19), up to the owner.
OwnersPrefix == <<" ", "o", "w", "n", "e", "r", "s", ":">>
\* f" metadata.creators.name:{creators_query}" (line 22), up to the query.
CreatorsPrefix ==
    <<" ", "m", "e", "t", "a", "d", "a", "t", "a", ".", "c", "r", "e", "a", "t",
      "o", "r", "s", ".", "n", "a", "m", "e", ":">>
\* '" OR "' (line 21).
OrSeparator == <<"\"", " ", "O", "R", " ", "\"">>

\* s[k:] of Python, k counted from 0.
Drop(s, k) == IF k >= Len(s) THEN <<>> ELSE SubSeq(s, k + 1, Len(s))

\* s.startswith(p)
StartsWith(s, p) == Len(s) >= Len(p) /\ SubSeq(s, 1, Len(p)) = p

\* s.replace(old, new): every non-overlapping occurrence, scanning from the
\* left (old is never empty here).
RECURSIVE StrReplace(_, _, _)
StrReplace(s, old, new) ==
    IF s = <<>> THEN <<>>
    ELSE IF StartsWith(s, old) THEN new \o StrReplace(Drop(s, Len(old)), old, new)
    ELSE <<Head(s)>> \o StrReplace(Tail(s), old, new)

\* sep.join(parts)
RECURSIVE StrJoin(_, _)
StrJoin(sep, parts) ==
    IF parts = <<>> THEN <<>>
    ELSE IF Len(parts) = 1 THEN parts[1]
    ELSE parts[1] \o sep \o StrJoin(sep, Tail(parts))

\* A split that keeps the first segment instead of the last.
RECURSIVE FirstSegment(_)
FirstSegment(s) ==
    IF s = <<>> \/ Head(s) = "/" THEN <<>>
    ELSE <<Head(s)>> \o FirstSegment(Tail(s))

\* s.split("/")[-1]: what follows the last "/" (all of s when it has none).
RECURSIVE LastSegment(_)
LastSegment(s) ==
    IF s = <<>> THEN <<>>
    ELSE IF s[Len(s)] = "/" THEN <<>>
    ELSE LastSegment(SubSeq(s, 1, Len(s) - 1)) \o <<s[Len(s)]>>

Digits == <<"0", "1", "2", "3", "4", "5", "6", "7", "8", "9">>

\* f"{n}" for a non-negative integer: its decimal digits.
RECURSIVE IdStr(_)
IdStr(n) ==
    IF n < 10 THEN <<Digits[n + 1]>>
    ELSE IdStr(n \div 10) \o <<Digits[(n % 10) + 1]>>


\* ------------------------------------------------------------- inputs
\* The command line's files: what was typed after -f, and what the file
\* system says about it (os.path.isfile, and whether open() succeeds).
UploadFiles ==
    { [path |-> <<"d", "/", "a">>, isfile |-> TRUE, readable |-> TRUE],
      [path |-> <<"u">>, isfile |-> TRUE, readable |-> FALSE],
      [path |-> <<"m">>, isfile |-> FALSE, readable |-> FALSE] }

\* The working directory os.path.abspath prepends to a relative path.
Cwd == <<"/", "w">>

CreatorA == [hasName |-> TRUE, name |-> <<"A">>]
CreatorB == [hasName |-> TRUE, name |-> <<"B", "/", "C">>]
CreatorAnonymous == [hasName |-> FALSE, name |-> <<>>]

\* What yaml.safe_load finds in the file given with -c.  yaml is "invalid"
\* when the document cannot be loaded or has no zenodo_metadata key, "null"
\* when the key is there with no value, "no_metadata", "no_title" and
\* "no_creators" when that key is absent below it.
ConfigFile(isfile, yaml, creators) ==
    [isfile |-> isfile, yaml |-> yaml, title |-> <<"S", "/", "D">>, creators |-> creators]

ConfigFiles ==
    { ConfigFile(TRUE, "ok", <<CreatorA, CreatorB>>),
      ConfigFile(TRUE, "ok", <<CreatorA, CreatorAnonymous>>),
      ConfigFile(TRUE, "no_creators", <<>>),
      ConfigFile(TRUE, "no_title", <<CreatorA>>),
      ConfigFile(TRUE, "no_metadata", <<>>),
      ConfigFile(TRUE, "null", <<>>),
      ConfigFile(TRUE, "invalid", <<>>),
      ConfigFile(FALSE, "ok", <<CreatorA>>) }

\* ZENODO_ACCESS_TOKEN: unset or empty, or a token.
Tokens == { <<>>, <<"t">> }

\* The HTTP statuses the service answers with.
Statuses == {200, 404, 500}

\* The records the service holds when the program starts.
InitialRecords == {9, 10}

\* Host names of the service; the second contains the word the record URL
\* is derived from.
Sites == { <<"z">>, Deposit }

VARIABLES
    token, config, files, publish,       \* environment and command line
    site, minted, published, drafts,     \* the remote service
    pc, i, error,                        \* control: position, loop index, exception
    filebase,
    deposition_id, bucket_url, file_url, \* the triple the workflow carries
    new_deposition_id,                   \* create_new_version's local
    records,                             \* search_for_deposition's hit list, until the
                                         \* caller's next call
    calls,                               \* the remote calls issued, in order
    args, ret                            \* search_for_deposition's arguments and search string

vars ==
    <<token, config, files, publish, site, minted, published, drafts, pc, i, error,
      filebase, deposition_id, bucket_url, file_url, new_deposition_id, records, calls,
      args, ret>>

inputVars == <<token, config, files, publish, site>>
serverVars == <<minted, published, drafts>>
tripleVars == <<deposition_id, bucket_url, file_url>>
queryVars == <<args, ret, records>>

\* -------------------------------------------------- search string
NoOwner == [given |-> FALSE, val |-> <<>>]
NoCreators == [kind |-> "none", items |-> <<>>]
NoArgs == [title |-> <<>>, owner |-> NoOwner, creators |-> NoCreators]
NoRet == [error |-> "none", search |-> <<>>]

\* Line 18, "if owner": None and the empty string are falsy.
OwnerTruthy(owner) == owner.given /\ owner.val # <<>>

\* Line 20, "if creators": None and the empty list are falsy; a generator
\* object is truthy whatever it yields.
CreatorsTruthy(creators) ==
    \/ creators.kind = "generator"
    \/ creators.kind = "list" /\ creators.items # <<>>

\* Lines 17-23.  join() consumes the creators; the generator __main__ passes
\* evaluates creator["name"] only then, and raises KeyError on a creator
\* without a name.
BuildQuery(a) ==
    LET s1 == TitlePrefix \o a.title \o Quote
        s2 == IF OwnerTruthy(a.owner) THEN s1 \o OwnersPrefix \o a.owner.val ELSE s1
        names == [k \in 1..Len(a.creators.items) |-> a.creators.items[k].name]
        creators_query == Quote \o StrJoin(OrSeparator, names) \o Quote
        s3 == s2 \o CreatorsPrefix \o creators_query
    IN  IF ~CreatorsTruthy(a.creators)
        THEN [error |-> "none", search |-> StrReplace(s2, Slash, SlashReplacement)]
        ELSE IF \E k \in 1..Len(a.creators.items) : ~a.creators.items[k].hasName
        THEN [error |-> "KeyError", search |-> <<>>]
        ELSE [error |-> "none", search |-> StrReplace(s3, Slash, SlashReplacement)]


\* ------------------------------------------------- the remote service
\* links.html, links.bucket and links.latest_draft of the deposition JSON.
HtmlOf(id) == site \o Slash \o Deposit \o Slash \o IdStr(id)
BucketOf(id) == <<"b">> \o IdStr(id)
DraftUrl(id) == site \o Slash \o IdStr(id)

\* The JSON of deposition id; latest_draft names deposition draft.
Deposition(id, draft) ==
    [id |-> id, bucket |-> BucketOf(id), html |-> HtmlOf(id), latest_draft |-> DraftUrl(draft)]

Max(S) == CHOOSE x \in S : \A y \in S : y <= x

\* The id the service gives the next deposition it creates.
FreshId == Max(minted) + 1

\* The unpublished new-version draft of record id, 0 if it has none.  The
\* service keeps at most one: newversion answers with it until it is
\* published.
OpenDraft(id) ==
    IF \E d \in drafts : d[1] = id THEN (CHOOSE d \in drafts : d[1] = id)[2] ELSE 0

\* Hit lists a search may answer with: published records, best match first.
HitLists ==
    { <<>> } \cup
    UNION { { h \in [1..n -> published] : \A a, b \in 1..n : a # b => h[a] # h[b] }
            : n \in 1..MaxHits }

\* ------------------------------------------------------------ control
\* r.raise_for_status(): raises HTTPError for 4xx and 5xx.
RaisesForStatus(status) == status >= 400 /\ status < 600

\* One remote call in the log: the file it was issued for, the operation,
\* the variable part of its URL, the response's status, whether its body
\* decoded, and the deposition the program read from it, if any.
Call(op, arg, status, valid, body) ==
    [file |-> i, op |-> op, arg |-> arg, status |-> status, valid |-> valid,
     body |-> IF body = <<>> THEN <<>> ELSE <<body[1]>>]

\* An exception handled per file: the loop goes on with the next file.
RaisesCaught(e) ==
    /\ error' = e
    /\ IF i < Len(files) THEN pc' = "check" /\ i' = i + 1 ELSE pc' = "done" /\ i' = i

\* An exception nothing catches: the program stops where it is.
Raises(e) ==
    /\ error' = e
    /\ pc' = "failed"
    /\ i' = i

\* The end of the for loop's body (line 191): the next file, or the end.
NextFile ==
    /\ error' = error
    /\ IF i < Len(files) THEN pc' = "check" /\ i' = i + 1 ELSE pc' = "done" /\ i' = i

\* Publishing whatever the flag says.
AlwaysPublish == TRUE

\* Lines 219 and 235: "if args.publish".
ShouldPublish == publish

\* After the last unconditional call of a file's workflow.
AfterWorkflow ==
    IF ShouldPublish THEN pc' = "publish" /\ i' = i /\ error' = error ELSE NextFile

\* A token check that lets an empty token through.
TokenPresent(t) == TRUE

\* Line 171: "if not token".
TokenGiven(t) == t # <<>>

\* No check of the file before the workflow.
IsFileUnchecked(f) == TRUE

\* Line 194: os.path.isfile(filename).
IsFile(f) == f.isfile

\* A lookup that takes every deposition for a new one.
NeverFound(id) == TRUE

\* Line 204: "if not deposition_id".
NotFound(id) == id = 0

\* A search that returns the last hit.
SearchReturnLast(hits) ==
    IF hits = <<>> THEN [id |-> 0, bucket |-> <<>>, url |-> <<>>]
    ELSE [id |-> hits[Len(hits)].id, bucket |-> hits[Len(hits)].bucket,
          url |-> StrReplace(hits[Len(hits)].html, Deposit, Record)]

\* Lines 30-42: None, None, None without records, else the first record's
\* id, bucket and record URL.
SearchReturn(hits) ==
    IF hits = <<>> THEN [id |-> 0, bucket |-> <<>>, url |-> <<>>]
    ELSE [id |-> hits[1].id, bucket |-> hits[1].bucket,
          url |-> StrReplace(hits[1].html, Deposit, Record)]

\* Lines 85-89.
NewDepositionReturn(deposition) ==
    [id |-> deposition.id, bucket |-> deposition.bucket,
     url |-> StrReplace(deposition.html, Deposit, Record)]

\* A new version that hands back what the caller already had.
NewVersionReturnStale(deposition) ==
    [id |-> deposition_id, bucket |-> bucket_url, url |-> file_url]

\* Lines 66-70.
NewVersionReturn(deposition) ==
    [id |-> deposition.id, bucket |-> deposition.bucket,
     url |-> StrReplace(deposition.html, Deposit, Record)]

SetTriple(t) ==
    /\ deposition_id' = t.id
    /\ bucket_url' = t.bucket
    /\ file_url' = t.url


\* ------------------------------------------------------------ program
FileLists == UNION { [1..n -> UploadFiles] : n \in 1..MaxFiles }

Init ==
    /\ token \in Tokens
    /\ config \in ConfigFiles
    /\ files \in FileLists
    /\ publish \in BOOLEAN
    /\ site \in Sites
    /\ minted = InitialRecords
    /\ published = InitialRecords
    /\ drafts = {}
    /\ pc = "token"
    /\ i = 0
    /\ error = "none"
    /\ filebase = <<>>
    /\ deposition_id = 0
    /\ bucket_url = <<>>
    /\ file_url = <<>>
    /\ new_deposition_id = <<>>
    /\ records = <<>>
    /\ calls = <<>>
    /\ args = NoArgs
    /\ ret = NoRet

\* Lines 170-176.
CheckToken ==
    /\ pc = "token"
    /\ IF TokenGiven(token)
       THEN pc' = "config" /\ i' = i /\ error' = error
       ELSE Raises("SystemExit")
    /\ UNCHANGED <<inputVars, serverVars, tripleVars, queryVars, filebase,
                   new_deposition_id, calls>>

\* Lines 178-189; argparse guarantees at least one file for the loop.
LoadConfig ==
    /\ pc = "config"
    /\ IF ~config.isfile THEN Raises("FileNotFoundError")
       ELSE IF config.yaml = "invalid" THEN Raises("SystemExit")
       ELSE pc' = "check" /\ i' = 1 /\ error' = error
    /\ UNCHANGED <<inputVars, serverVars, tripleVars, queryVars, filebase,
                   new_deposition_id, calls>>

\* Lines 192-197.
CheckFile ==
    /\ pc = "check"
    /\ filebase' = LastSegment(Cwd \o Slash \o files[i].path)
    /\ IF IsFile(files[i])
       THEN pc' = "search" /\ i' = i /\ error' = error
       ELSE Raises("FileNotFoundError")
    /\ UNCHANGED <<inputVars, serverVars, tripleVars, queryVars, new_deposition_id, calls>>

\* Lines 199-204 with search_for_deposition (lines 10-42).  The arguments
\* are evaluated first, then the search string is composed, then the GET is
\* issued; its status is never looked at, only its body.
SearchForDeposition ==
    /\ pc = "search"
    /\ UNCHANGED <<inputVars, serverVars, filebase, new_deposition_id>>
    /\ IF config.yaml # "ok"
       THEN /\ Raises(IF config.yaml = "null" THEN "TypeError" ELSE "KeyError")
            /\ UNCHANGED <<tripleVars, queryVars, calls>>
       ELSE LET a == [title |-> config.title, owner |-> NoOwner,
                      creators |-> [kind |-> "generator", items |-> config.creators]]
                q == BuildQuery(a)
            IN  /\ args' = a
                /\ ret' = q
                /\ IF q.error # "none"
                   THEN /\ Raises(q.error)
                        /\ UNCHANGED <<tripleVars, calls, records>>
                   ELSE \E status \in Statuses, valid \in BOOLEAN, ids \in HitLists :
                          /\ status < 400 => valid
                          /\ ~valid => ids = <<>>
                          /\ LET hits == [k \in 1..Len(ids) |-> Deposition(ids[k], ids[k])]
                                 t == SearchReturn(hits)
                             IN  /\ records' = IF valid THEN hits ELSE records
                                 /\ calls' = Append(calls, Call("search", q.search, status, valid, hits))
                                 /\ IF ~valid
                                    THEN Raises("KeyError") /\ UNCHANGED tripleVars
                                    ELSE /\ SetTriple(t)
                                         /\ pc' = IF NotFound(t.id) THEN "create" ELSE "newversion"
                                         /\ i' = i
                                         /\ error' = error

\* Line 205 with create_new_deposition (lines 73-89).
CreateNewDeposition ==
    /\ pc = "create"
    /\ UNCHANGED <<inputVars, args, ret, filebase, new_deposition_id, published, drafts>>
    /\ records' = <<>>
    /\ \E status \in Statuses :
         IF RaisesForStatus(status)
         THEN /\ calls' = Append(calls, Call("create", <<>>, status, TRUE, <<>>))
              /\ Raises("HTTPError")
              /\ UNCHANGED <<tripleVars, minted>>
         ELSE LET deposition == Deposition(FreshId, FreshId)
              IN  /\ calls' = Append(calls, Call("create", <<>>, status, TRUE, <<deposition>>))
                  /\ minted' = minted \cup {FreshId}
                  /\ SetTriple(NewDepositionReturn(deposition))
                  /\ pc' = "upload_new"
                  /\ i' = i
                  /\ error' = error

\* Lines 48-57: the newversion POST and the id parsed out of latest_draft.
CreateNewVersionPost ==
    /\ pc = "newversion"
    /\ UNCHANGED <<inputVars, args, ret, filebase, tripleVars, published>>
    /\ records' = <<>>
    /\ \E status \in Statuses :
         IF RaisesForStatus(status)
         THEN /\ calls' = Append(calls, Call("newversion", IdStr(deposition_id), status, TRUE, <<>>))
              /\ Raises("HTTPError")
              /\ UNCHANGED <<minted, drafts, new_deposition_id>>
         ELSE LET draft == IF OpenDraft(deposition_id) # 0 THEN OpenDraft(deposition_id) ELSE FreshId
                  deposition == Deposition(deposition_id, draft)
              IN  /\ calls' = Append(calls,
                        Call("newversion", IdStr(deposition_id), status, TRUE, <<deposition>>))
                  /\ minted' = minted \cup {draft}
                  /\ drafts' = drafts \cup {<<deposition_id, draft>>}
                  /\ new_deposition_id' = LastSegment(deposition.latest_draft)
                  /\ pc' = "fetch"
                  /\ i' = i
                  /\ error' = error

\* Lines 59-70: the GET of the new draft; the service answers 2xx only for
\* a deposition it has.
CreateNewVersionGet ==
    /\ pc = "fetch"
    /\ UNCHANGED <<inputVars, queryVars, filebase, serverVars, new_deposition_id>>
    /\ \E status \in Statuses :
         IF RaisesForStatus(status)
         THEN /\ calls' = Append(calls, Call("fetch", new_deposition_id, status, TRUE, <<>>))
              /\ Raises("HTTPError")
              /\ UNCHANGED tripleVars
         ELSE \E id \in minted :
                /\ IdStr(id) = new_deposition_id
                /\ LET deposition == Deposition(id, id)
                   IN  /\ calls' = Append(calls,
                             Call("fetch", new_deposition_id, status, TRUE, <<deposition>>))
                       /\ SetTriple(NewVersionReturn(deposition))
                       /\ pc' = "upload_version"
                       /\ i' = i
                       /\ error' = error

\* Lines 206-212 and 228-234 with upload_to_zenodo (lines 92-108): open()
\* comes before the PUT.
UploadToZenodo ==
    /\ pc \in {"upload_new", "upload_version"}
    /\ UNCHANGED <<inputVars, queryVars, filebase, serverVars, tripleVars, new_deposition_id>>
    /\ IF ~files[i].isfile THEN Raises("FileNotFoundError") /\ UNCHANGED calls
       ELSE IF ~files[i].readable THEN Raises("PermissionError") /\ UNCHANGED calls
       ELSE \E status \in Statuses :
              /\ calls' = Append(calls,
                    Call("upload", bucket_url \o Slash \o filebase, status, TRUE, <<>>))
              /\ IF RaisesForStatus(status) THEN Raises("HTTPError")
                 ELSE IF pc = "upload_new" THEN pc' = "metadata" /\ i' = i /\ error' = error
                 ELSE AfterWorkflow

\* Lines 213-219 with add_meta_data (lines 111-126).
AddMetaData ==
    /\ pc = "metadata"
    /\ UNCHANGED <<inputVars, queryVars, filebase, serverVars, tripleVars, new_deposition_id>>
    /\ \E status \in Statuses :
         /\ calls' = Append(calls, Call("metadata", IdStr(deposition_id), status, TRUE, <<>>))
         /\ IF RaisesForStatus(status) THEN Raises("HTTPError") ELSE AfterWorkflow

\* Lines 220-222 and 236-238 with publish_file (lines 129-141).  A published
\* draft becomes a record and is no longer its parent's open draft.
PublishFile ==
    /\ pc = "publish"
    /\ UNCHANGED <<inputVars, queryVars, filebase, minted, tripleVars, new_deposition_id>>
    /\ \E status \in Statuses :
         /\ calls' = Append(calls, Call("publish", IdStr(deposition_id), status, TRUE, <<>>))
         /\ IF RaisesForStatus(status)
            THEN Raises("HTTPError") /\ UNCHANGED <<published, drafts>>
            ELSE /\ published' = published \cup {deposition_id}
                 /\ drafts' = { d \in drafts : d[2] # deposition_id }
                 /\ NextFile

Next ==
    \/ CheckToken
    \/ LoadConfig
    \/ CheckFile
    \/ SearchForDeposition
    \/ CreateNewDeposition
    \/ CreateNewVersionPost
    \/ CreateNewVersionGet
    \/ UploadToZenodo
    \/ AddMetaData
    \/ PublishFile

Spec == Init /\ [][Next]_vars


\* ------------------------------------ search_for_deposition on its own
\* The search string of search_for_deposition for arguments of every shape
\* its signature admits: owner None, empty or a string; creators None, a
\* list of names, or a generator as __main__ passes.
QueryTitles == { <<>>, <<"T">>, <<"/">>, <<"T", "/">>, <<"/", "T">>, <<"/", "/">> }
QueryOwners == { NoOwner, [given |-> TRUE, val |-> <<>>], [given |-> TRUE, val |-> <<"O">>],
                 [given |-> TRUE, val |-> <<"O", "/">>] }
QueryNames == { CreatorA, CreatorB }
QueryItems == { <<>> } \cup UNION { [1..n -> QueryNames] : n \in 1..2 }
QueryCreators ==
    { NoCreators, [kind |-> "generator", items |-> <<CreatorA, CreatorAnonymous>>] } \cup
    { [kind |-> k, items |-> its] : k \in {"list", "generator"}, its \in QueryItems }

QueryInit ==
    /\ args \in [title : QueryTitles, owner : QueryOwners, creators : QueryCreators]
    /\ ret = NoRet
    /\ pc = "query"
    /\ token = <<"t">>
    /\ config = ConfigFile(TRUE, "ok", <<>>)
    /\ files = <<>>
    /\ publish = FALSE
    /\ site = <<"z">>
    /\ minted = InitialRecords
    /\ published = InitialRecords
    /\ drafts = {}
    /\ i = 0
    /\ error = "none"
    /\ filebase = <<>>
    /\ deposition_id = 0
    /\ bucket_url = <<>>
    /\ file_url = <<>>
    /\ new_deposition_id = <<>>
    /\ records = <<>>
    /\ calls = <<>>

\* Lines 17-23 applied to the arguments.
ComposeSearch ==
    /\ pc = "query"
    /\ ret' = BuildQuery(args)
    /\ pc' = "composed"
    /\ error' = BuildQuery(args).error
    /\ UNCHANGED <<inputVars, serverVars, tripleVars, i, filebase, new_deposition_id,
                   calls, args, records>>

QueryNext == ComposeSearch

SpecQuery == QueryInit /\ [][QueryNext]_vars

\* ------------------------------------------------------------- claims
\* The search string the specification describes, before the treatment of
\* "/": the title clause, then the owner and creators clauses when present.
ExpectedSearch(a, withOwner, withCreators) ==
    TitlePrefix \o a.title \o Quote
    \o (IF withOwner THEN OwnersPrefix \o a.owner.val ELSE <<>>)
    \o (IF withCreators
        THEN CreatorsPrefix \o Quote
             \o StrJoin(OrSeparator, [k \in 1..Len(a.creators.items) |-> a.creators.items[k].name])
             \o Quote
        ELSE <<>>)

IsSlash(c) == c = "/"
NotSlash(c) == c # "/"

\* C5 as stated: the search string is the composed query with every "/"
\* removed, the owner clause present only when an owner is given and the
\* creators clause only when creators are given.
C5_SlashesRemoved ==
    (pc = "composed" /\ ret.error = "none") =>
        ret.search = SelectSeq(ExpectedSearch(args, args.owner.given /\ args.owner.val # <<>>,
                                              args.creators.items # <<>>), NotSlash)

\* C5, amended: the search string is the composed query with every "/"
\* replaced by one space, character for character; the owner clause is
\* present exactly when the owner is a non-empty string, and the creators
\* clause exactly when creators is a non-empty list or any generator (even
\* one that yields nothing, which gives the clause with an empty name).
C5_SlashesBecomeSpaces ==
    (pc = "composed" /\ ret.error = "none") =>
        LET e == ExpectedSearch(args,
                     args.owner.given /\ args.owner.val # <<>>,
                     args.creators.kind = "generator"
                         \/ (args.creators.kind = "list" /\ args.creators.items # <<>>))
        IN  /\ Len(ret.search) = Len(e)
            /\ \A k \in 1..Len(e) : ret.search[k] = IF IsSlash(e[k]) THEN " " ELSE e[k]

\* A title with a "/", an owner and two creators went through the function.
C5_Witness ==
    /\ pc = "composed"
    /\ ret.error = "none"
    /\ \E k \in 1..Len(args.title) : IsSlash(args.title[k])
    /\ args.owner.given /\ args.owner.val # <<>>
    /\ Len(args.creators.items) = 2
    /\ \E k \in 1..Len(ret.search) : ret.search[k] = " "


\* The calls issued for file k, their operations, and whether the loop is
\* past file k.
CallsOf(k) == SelectSeq(calls, LAMBDA c : c.file = k)
Ops(cs) == [j \in 1..Len(cs) |-> cs[j].op]
IsPrefix(a, b) == Len(a) <= Len(b) /\ SubSeq(b, 1, Len(a)) = a
Finished(k) == k < i \/ pc = "done"
PublishStep == IF publish THEN <<"publish">> ELSE <<>>
NewDepositionCalls == <<"search", "create", "upload", "metadata">> \o PublishStep
NewVersionCalls == <<"search", "newversion", "fetch", "upload">> \o PublishStep
SearchedNoHits(k) ==
    CallsOf(k) # <<>> /\ CallsOf(k)[1].op = "search" /\ CallsOf(k)[1].valid
        /\ CallsOf(k)[1].body = <<>>
SearchedHits(k) ==
    CallsOf(k) # <<>> /\ CallsOf(k)[1].op = "search" /\ CallsOf(k)[1].valid
        /\ CallsOf(k)[1].body # <<>>

\* C1: after a search with zero hits the triple is None, None, None and
\* the file's calls are search, create-deposition, upload, attach-metadata
\* and then publish exactly when -p was given: always a prefix of that list,
\* and the whole list once the file is done.
C1_NotFoundCalls ==
    /\ \A k \in 1..Len(files) :
         SearchedNoHits(k) =>
            /\ IsPrefix(Ops(CallsOf(k)), NewDepositionCalls)
            /\ Finished(k) => Ops(CallsOf(k)) = NewDepositionCalls
    /\ (pc = "create") =>
            /\ SearchedNoHits(i)
            /\ deposition_id = 0 /\ bucket_url = <<>> /\ file_url = <<>>

C1_Witness ==
    /\ pc = "done"
    /\ publish
    /\ SearchedNoHits(1)
    /\ Ops(CallsOf(1)) = <<"search", "create", "upload", "metadata", "publish">>

\* C2: after a search with at least one hit the file's calls are search,
\* newversion of the first hit's id, fetch of the new draft's id, upload and
\* then publish exactly when -p was given; attach-metadata and
\* create-deposition are not among them.
C2_FoundCalls ==
    \A k \in 1..Len(files) :
        SearchedHits(k) =>
            LET cs == CallsOf(k)
            IN  /\ IsPrefix(Ops(cs), NewVersionCalls)
                /\ Finished(k) => Ops(cs) = NewVersionCalls
                /\ \A j \in 1..Len(cs) : cs[j].op \notin {"metadata", "create"}
                /\ Len(cs) >= 2 => cs[2].arg = IdStr(cs[1].body[1].id)
                /\ Len(cs) >= 3 =>
                       \E d \in minted : /\ cs[2].body[1].latest_draft = DraftUrl(d)
                                         /\ cs[3].arg = IdStr(d)

C2_Witness ==
    /\ pc = "done"
    /\ ~publish
    /\ SearchedHits(1)
    /\ Ops(CallsOf(1)) = <<"search", "newversion", "fetch", "upload">>
    /\ CallsOf(1)[2].arg = <<"1", "0">>
    /\ CallsOf(1)[3].arg = <<"1", "1">>

\* C3 as stated: a response with status >= 400 to any remote call, the
\* search included, is the last call issued: the program has failed.
C3_FailFast ==
    \A k \in 1..Len(calls) :
        calls[k].status >= 400 => k = Len(calls) /\ pc = "failed"

\* The complete, successful workflow of one file.
Complete(cs) ==
    /\ Ops(cs) \in {NewDepositionCalls, NewVersionCalls}
    /\ cs[1].valid
    /\ \A j \in 2..Len(cs) : cs[j].status < 400

\* C4: files are handled in argument order and an error at any step of a
\* file ends the batch: a file has calls only if every file before it went
\* through its whole workflow without an error, an error leaves the program
\* stopped, and no call other than the seven workflow calls is ever issued.
C4_BatchAborts ==
    /\ \A a, b \in 1..Len(calls) : a < b => calls[a].file <= calls[b].file
    /\ \A k \in 1..Len(files) :
         CallsOf(k) # <<>> => \A j \in 1..(k - 1) : Complete(CallsOf(j))
    /\ error # "none" => /\ pc = "failed"
                         /\ \A k \in 1..Len(calls) : calls[k].file <= i
    /\ \A k \in 1..Len(calls) :
         calls[k].op \in {"search", "create", "newversion", "fetch", "upload",
                          "metadata", "publish"}

\* The upload of the first of two files succeeded and its metadata call
\* failed: the deposition stays, the second file is never touched.
C4_Witness ==
    /\ pc = "failed"
    /\ error = "HTTPError"
    /\ Len(files) = 2
    /\ i = 1
    /\ Ops(calls) = <<"search", "create", "upload", "metadata">>
    /\ calls[3].status < 400
    /\ calls[4].status >= 400


\* The search whose answer the program has just acted on.
LastCall == calls[Len(calls)]
JustFound == pc = "newversion" /\ calls # <<>> /\ LastCall.op = "search"
FirstHit == records[1]

\* C6 as stated: with at least one hit the function returns the first hit's
\* id and bucket, and the first hit's HTML link with "deposit" replaced by
\* "record" once: the first occurrence only.
C6_ReplacedOnce ==
    JustFound =>
        LET first == FirstHit
        IN  /\ deposition_id = first.id
            /\ bucket_url = first.bucket
            /\ file_url = (IF site = Deposit THEN Record \o Slash \o Deposit
                           ELSE site \o Slash \o Record) \o Slash \o IdStr(first.id)

\* C6, amended: with at least one hit the function returns the first hit's
\* id and bucket, and the first hit's HTML link with every occurrence of
\* "deposit" replaced by "record" (the host name's too); later hits never
\* influence the result.
C6_FirstHit ==
    JustFound =>
        LET first == FirstHit
        IN  /\ records # <<>>
            /\ LastCall.body = <<first>>
            /\ deposition_id = first.id
            /\ bucket_url = first.bucket
            /\ first.html = site \o Slash \o Deposit \o Slash \o IdStr(first.id)
            /\ file_url = (IF site = Deposit THEN Record ELSE site)
                          \o Slash \o Record \o Slash \o IdStr(first.id)

\* Two hits came back from a host whose name contains "deposit".
C6_Witness ==
    /\ JustFound
    /\ Len(records) = MaxHits
    /\ site = Deposit
    /\ deposition_id = FirstHit.id
    /\ file_url = <<"r", "e", "c", "o", "r", "d", "/", "r", "e", "c", "o", "r", "d", "/", "9">>

\* C7: a file that does not exist (or is a directory) raises
\* FileNotFoundError before any remote call for it: no call is ever issued
\* for that file or a later one, and once its turn has come the program has
\* stopped with that error.
C7_MissingFile ==
    \A k \in 1..Len(files) :
        ~files[k].isfile =>
            /\ \A j \in 1..Len(calls) : calls[j].file < k
            /\ pc # "done"
            /\ (i = k /\ pc # "check") => (pc = "failed" /\ error = "FileNotFoundError")

\* The first file went through, the second does not exist.
C7_Witness ==
    /\ pc = "failed"
    /\ error = "FileNotFoundError"
    /\ i = 2
    /\ ~files[2].isfile
    /\ Complete(CallsOf(1))
    /\ Len(calls) = Len(CallsOf(1))

\* The configuration errors of the specification: no token, no config
\* file, no zenodo_metadata, or metadata without title, creators or a
\* creator's name.
ConfigurationError ==
    \/ token = <<>>
    \/ ~config.isfile
    \/ config.yaml # "ok"
    \/ \E k \in 1..Len(config.creators) : ~config.creators[k].hasName

\* C8: with a configuration error the program never issues a remote call
\* and never gets past the search of the first file.
C8_ConfigErrors ==
    ConfigurationError =>
        /\ calls = <<>>
        /\ pc \in {"token", "config", "check", "search", "failed"}
        /\ i <= 1

\* A creator without a name is found when the search string is composed,
\* before the GET.
C8_Witness ==
    /\ pc = "failed"
    /\ error = "KeyError"
    /\ config.yaml = "ok"
    /\ \E k \in 1..Len(config.creators) : ~config.creators[k].hasName
    /\ args.creators.kind = "generator"
    /\ calls = <<>>

\* The URL is bucket/name with name the last path component of file k.
UploadsTo(url, bucket, k) ==
    LET path == files[k].path
        name == Drop(url, Len(bucket) + 1)
    IN  /\ IsPrefix(bucket \o Slash, url)
        /\ name # <<>>
        /\ \A j \in 1..Len(name) : name[j] # "/"
        /\ Len(name) <= Len(path)
        /\ SubSeq(path, Len(path) - Len(name) + 1, Len(path)) = name
        /\ Len(name) < Len(path) => path[Len(path) - Len(name)] = "/"

\* C9: every fetch follows a successful newversion of the same file and
\* asks for the trailing path segment of its latest_draft link; the upload
\* and the publish after it use the bucket and the id of the fetched draft,
\* which are not those of the matched deposition; a failed newversion is
\* followed by nothing.
C9_NewVersion ==
    /\ \A k \in 1..Len(calls) :
         calls[k].op = "fetch" =>
            /\ k > 2
            /\ calls[k - 1].op = "newversion"
            /\ calls[k - 1].file = calls[k].file
            /\ calls[k - 1].status < 400
            /\ LET link == calls[k - 1].body[1].latest_draft
                   id == calls[k].arg
               IN  /\ \A j \in 1..Len(id) : id[j] # "/"
                   /\ Len(link) > Len(id)
                   /\ SubSeq(link, Len(link) - Len(id) + 1, Len(link)) = id
                   /\ link[Len(link) - Len(id)] = "/"
            /\ (calls[k].status < 400) =>
                 LET draft == calls[k].body[1]
                     matched == calls[k - 2].body[1]
                 IN  /\ IdStr(draft.id) = calls[k].arg
                     /\ draft.id # matched.id
                     /\ draft.bucket # matched.bucket
                     /\ (k = Len(calls) /\ pc = "upload_version") =>
                            (deposition_id = draft.id /\ bucket_url = draft.bucket)
                     /\ (Len(calls) > k /\ calls[k + 1].file = calls[k].file) =>
                            /\ calls[k + 1].op = "upload"
                            /\ UploadsTo(calls[k + 1].arg, draft.bucket, calls[k].file)
                     /\ (Len(calls) > k + 1 /\ calls[k + 2].file = calls[k].file) =>
                            /\ calls[k + 2].op = "publish"
                            /\ calls[k + 2].arg = IdStr(draft.id)
    /\ \A k \in 1..Len(calls) :
         (calls[k].op = "newversion" /\ calls[k].status >= 400) => k = Len(calls)

C9_Witness ==
    /\ pc = "done"
    /\ publish
    /\ Len(calls) = 5
    /\ calls[2].arg = <<"9">>
    /\ calls[3].arg = <<"1", "1">>
    /\ calls[4].arg = <<"b", "1", "1", "/", "a">>
    /\ calls[5].op = "publish"
    /\ calls[5].arg = <<"1", "1">>

\* Every remote call of the finished batch succeeded.
AllSucceeded == pc = "done" /\ \A k \in 1..Len(calls) : calls[k].status < 400

\* The deposition the service returned to file k's iteration: the body of
\* its create-deposition call, or of its fetch.
Returned(k) ==
    LET cs == SelectSeq(CallsOf(k), LAMBDA c : c.op \in {"create", "fetch"})
    IN  cs[1].body[1]
Creating(k) == SelectSeq(CallsOf(k), LAMBDA c : c.op \in {"create", "newversion"})
UploadOf(k) == SelectSeq(CallsOf(k), LAMBDA c : c.op = "upload")[1]

====
